---------------------------- MODULE Spec2Model ----------------------------
(***************************************************************************)
(* State-machine model of arb::gpu::mechanism                              *)
(* (arbor/backends/gpu/mechanism.cpp): instantiate(), set_parameter(),     *)
(* field_data(), the table accessors and initialize().                     *)
(*                                                                         *)
(* Device and host memory are modelled as sequences; a pointer is a record *)
(* [buf, obj, off]: the buffer it points into, the shared-state object it  *)
(* belongs to (<<>> for the mechanism's own buffers) and a 0-based element *)
(* offset.  Floating-point values are small integers, NAN is a             *)
(* distinguished value absorbed by multiplication.                         *)
(***************************************************************************)
EXTENDS Integers, Sequences, FiniteSets, TLC

VARIABLES
    mech_,            \* the schema (arb_mechanism_type)
    pos_data,         \* mechanism_layout: cv, weight, multiplicity
    overrides,        \* mechanism_overrides: globals (iteration order), ion_rebind
    shared,           \* shared_state: the ions present in ion_data
    pc,               \* position in instantiate() / initialize()
    idx,              \* loop index of the loop pc is in
    base_ptr,         \* the cursor of the buffer being laid out
    error,            \* the exception instantiate() ended with, or "none"
    mult_in_place_, width_, width_padded_,
    state_vars_h_, parameters_h_, ion_states_h_, globals_h_,
    data_, indices_,
    ppack_,
    parameters_d_, state_vars_d_, ion_states_d_,
    nops,             \* number of mutator / initialize calls made so far
    last,             \* the last completed set_parameter / initialize call
    kernel_out,       \* data_ as the initialization kernel left it
    trace             \* the steps of the current / last initialize() call

vars == << mech_, pos_data, overrides, shared, pc, idx, base_ptr, error,
           mult_in_place_, width_, width_padded_,
           state_vars_h_, parameters_h_, ion_states_h_, globals_h_,
           data_, indices_, ppack_,
           parameters_d_, state_vars_d_, ion_states_d_,
           nops, last, kernel_out, trace >>

inputs == << mech_, pos_data, overrides, shared >>

tables == << state_vars_h_, parameters_h_, ion_states_h_, globals_h_ >>

dtables == << parameters_d_, state_vars_d_, ion_states_d_ >>

dims == << mult_in_place_, width_, width_padded_ >>

hist == << nops, last, kernel_out, trace >>

-----------------------------------------------------------------------------
(* Bounds of the model *)

MaxWidth == 3

MaxMult == 2

MaxOps == 2

-----------------------------------------------------------------------------
(* Values and pointers *)

NAN == -1

JunkValue == 99

\* an element of iarray(n) no chunk has been copied to; nothing reads it
Unwritten == -2

Alignment == 2

Ptr(buf, off) == [buf |-> buf, obj |-> <<>>, off |-> off]

NullPtr == [buf |-> "null", obj |-> <<>>, off |-> 0]

WildPtr == [buf |-> "wild", obj |-> <<>>, off |-> 0]

SharedPtr(name) == [buf |-> "shared", obj |-> <<name>>, off |-> 0]

IonPtr(ion, fld) == [buf |-> "shared", obj |-> <<ion, fld>>, off |-> 0]

DevTablePtr(name) == [buf |-> "device", obj |-> <<name>>, off |-> 0]

\* what host_vector<T>(n) holds before it is written: it allocates and does not
\* initialise, so the memory is either fresh (zeroed) or recycled (junk)
Heaps == { "zeroed", "junk" }

UninitPtr(heap) == IF heap = "zeroed" THEN NullPtr ELSE WildPtr

UninitValue(heap) == IF heap = "zeroed" THEN 0 ELSE JunkValue

Fill(n, v) == [i \in 1..n |-> v]

\* math::round_up(v, b): the smallest multiple of b that is >= v
RoundUp(v, b) == LET m == v % b IN v - m + (IF m > 0 THEN b ELSE 0)

Max(a, b) == IF a >= b THEN a ELSE b

\* memory::copy(make_const_view(in), device_view(ptr, n)): n elements at ptr
Write(d, off, vals) ==
    [j \in 1..Len(d) |->
        IF j > off /\ j <= off + Len(vals) THEN vals[j - off] ELSE d[j]]

\* the n elements read through a pointer into d
Read(d, off, n) == [i \in 1..n |-> d[off + i]]


-----------------------------------------------------------------------------
(* The schema, the placement and the shared state instantiate() is given *)

ParamDecls == << [name |-> "gbar", default_value |-> 10],
                 [name |-> "e",    default_value |-> 20] >>

StateDecls == << [name |-> "m", default_value |-> 30],
                 [name |-> "h", default_value |-> 40] >>

GlobalDecls == << [name |-> "a", default_value |-> 1],
                  [name |-> "b", default_value |-> 2] >>

IonDecls == << [name |-> "x"], [name |-> "na"] >>

Prefixes(s) == { SubSeq(s, 1, n) : n \in 0..Len(s) }

Schemas ==
    [ parameters : Prefixes(ParamDecls), state_vars : Prefixes(StateDecls),
      globals : Prefixes(GlobalDecls), ions : Prefixes(IonDecls) ]

\* the schemas the mutators and initialize() are exercised on
FieldSchemas ==
    { m \in Schemas : /\ Len(m.parameters) = Len(m.state_vars)
                      /\ Len(m.globals) = 1 /\ Len(m.ions) = 1 }

n_parameters == Len(mech_.parameters)

n_state_vars == Len(mech_.state_vars)

n_globals == Len(mech_.globals)

n_ions == Len(mech_.ions)

\* overrides.globals in the order the map iterates: distinct keys
OverrideEntries == { <<"a", 4>>, <<"b", 5>>, <<"c", 9>> }

GlobalOverrides ==
    {<<>>} \cup { <<p>> : p \in OverrideEntries }
           \cup { pq \in OverrideEntries \X OverrideEntries : pq[1][1] # pq[2][1] }

\* overrides.ion_rebind as a set of <<declared, target>> pairs
IonRebinds == { {}, { <<"x", "ca">> } }

\* the names shared.ion_data has an entry for
SharedIonSets == { {"x", "na", "ca"}, {"na", "ca"}, {"x", "na"} }

\* the site sequence of a placement of width w (sorted, as the layout gives it)
Sites(w) == [i \in 1..w |-> 2 * i - 1]

Weights(w) == [i \in 1..w |-> 50 + i]

\* none, or one multiplicity per site
Multiplicities(w) ==
    {<<>>} \cup { [i \in 1..w |-> ((i + s) % MaxMult) + 1] : s \in 1..MaxMult }

Layouts ==
    UNION { { [cv |-> Sites(w), weight |-> Weights(w), multiplicity |-> mu]
                : mu \in Multiplicities(w) } : w \in 0..MaxWidth }

\* ion_state::node_index_ of every shared ion: the sites the ion is present on
IonNodeIndex == [i \in 1..(2 * MaxWidth + 2) |-> i - 1]

NoError == "none"

InitInstance ==
    /\ pc = "start"
    /\ idx = 0
    /\ base_ptr = NullPtr
    /\ error = NoError
    /\ mult_in_place_ = FALSE
    /\ width_ = 0
    /\ width_padded_ = 0
    /\ state_vars_h_ = <<>>
    /\ parameters_h_ = <<>>
    /\ ion_states_h_ = <<>>
    /\ globals_h_ = <<>>
    /\ data_ = <<>>
    /\ indices_ = <<>>
    /\ ppack_ = [ width |-> 0, mechanism_id |-> 0,
                  vec_ci |-> NullPtr, vec_di |-> NullPtr, vec_dt |-> NullPtr,
                  vec_v |-> NullPtr, vec_i |-> NullPtr, vec_g |-> NullPtr,
                  temperature_degC |-> NullPtr, diam_um |-> NullPtr,
                  time_since_spike |-> NullPtr, n_detectors |-> 0,
                  vec_t |-> NullPtr,
                  weight |-> NullPtr, node_index |-> NullPtr,
                  multiplicity |-> NullPtr, globals |-> NullPtr,
                  parameters |-> NullPtr, state_vars |-> NullPtr,
                  ion_states |-> NullPtr ]
    /\ parameters_d_ = <<>>
    /\ state_vars_d_ = <<>>
    /\ ion_states_d_ = <<>>
    /\ nops = 0
    /\ last = [op |-> "none", key |-> "", values |-> <<>>, status |-> "none"]
    /\ kernel_out = <<>>
    /\ trace = <<>>

\* every schema, override set, rebinding and shared ion set: instantiate() alone
InitInstantiate ==
    /\ mech_ \in Schemas
    /\ pos_data \in { l \in Layouts : Len(l.multiplicity) = 0
                                      \/ l.multiplicity[1] = 1 }
    /\ overrides \in [ globals : GlobalOverrides, ion_rebind : IonRebinds ]
    /\ shared \in [ ion_data : SharedIonSets ]
    /\ InitInstance

\* every placement of a schema with fields: instantiate(), then the mutators
Init ==
    /\ mech_ \in FieldSchemas
    /\ pos_data \in Layouts
    /\ overrides \in [ globals : { << <<"a", 4>> >> },
                       ion_rebind : { { <<"x", "ca">> } } ]
    /\ shared \in [ ion_data : { {"na", "ca"}, {"x", "na"} } ]
    /\ InitInstance

-----------------------------------------------------------------------------
(* instantiate(): internal variables, view tables and ion views *)

\* value_by_key(overrides.ion_rebind, ion).value_or(ion)
IonBinding(ion) ==
    IF \E p \in overrides.ion_rebind : p[1] = ion
    THEN (CHOOSE p \in overrides.ion_rebind : p[1] = ion)[2]
    ELSE ion

NoIon == ""

\* ptr_by_key(shared.ion_data, ion_binding): the ion's state, or null
PtrByKey(ion_binding) ==
    IF ion_binding \in shared.ion_data THEN ion_binding ELSE NoIon

\* the ion-view loop without its test: a missing ion is bound all the same
MissingAtBind_Unchecked(oion) == FALSE

\* the test `!oion` of the ion-view loop
MissingAtBind(oion) == oion = NoIon

\* the test `!oion` of the ion-index loop
MissingAtIndex(oion) == oion = NoIon

\* arb_ion_state{ iX_, eX_, Xi_, Xo_, charge }: positional, index left null
IonStateOf(oion) ==
    [ current_density        |-> IonPtr(oion, "iX_"),
      reversal_potential     |-> IonPtr(oion, "eX_"),
      internal_concentration |-> IonPtr(oion, "Xi_"),
      external_concentration |-> IonPtr(oion, "Xo_"),
      ionic_charge           |-> IonPtr(oion, "charge"),
      index                  |-> NullPtr ]

UninitIonState(heap) ==
    [ current_density        |-> UninitPtr(heap),
      reversal_potential     |-> UninitPtr(heap),
      internal_concentration |-> UninitPtr(heap),
      external_concentration |-> UninitPtr(heap),
      ionic_charge           |-> UninitPtr(heap),
      index                  |-> UninitPtr(heap) ]

\* the loop, or what follows it once it has run n times
LoopOrNext(loop, i, n, next) == IF i < n THEN loop ELSE next

Abort(what) ==
    /\ error' = what
    /\ pc' = "aborted"

InstSetInternal ==
    /\ pc = "start"
    /\ mult_in_place_' = (Len(pos_data.multiplicity) # 0)
    /\ width_' = Len(pos_data.cv)
    /\ width_padded_' = RoundUp(Len(pos_data.cv), Max(Alignment, Alignment))
    /\ ppack_' = [ ppack_ EXCEPT
                     !.width = Len(pos_data.cv),
                     !.mechanism_id = 1,
                     !.vec_ci = SharedPtr("cv_to_cell"),
                     !.vec_di = SharedPtr("cv_to_intdom"),
                     !.vec_dt = SharedPtr("dt_cv"),
                     !.vec_v = SharedPtr("voltage"),
                     !.vec_i = SharedPtr("current_density"),
                     !.vec_g = SharedPtr("conductivity"),
                     !.temperature_degC = SharedPtr("temperature_degC"),
                     !.diam_um = SharedPtr("diam_um"),
                     !.time_since_spike = SharedPtr("time_since_spike"),
                     !.n_detectors = 1 ]
    /\ \E heap \in Heaps :
          /\ state_vars_h_' = Fill(n_state_vars, UninitPtr(heap))
          /\ parameters_h_' = Fill(n_parameters, UninitPtr(heap))
          /\ ion_states_h_' = Fill(n_ions, UninitIonState(heap))
          /\ globals_h_' = Fill(n_globals, UninitValue(heap))
    /\ pc' = LoopOrNext("ions", 0, n_ions, "sites")
    /\ idx' = 0
    /\ UNCHANGED << inputs, base_ptr, error, data_, indices_, dtables, hist >>

InstSetIonView ==
    /\ pc = "ions"
    /\ LET ion == mech_.ions[idx + 1].name
           oion == PtrByKey(IonBinding(ion))
       IN  IF MissingAtBind(oion)
           THEN /\ Abort("missing_ion")
                /\ UNCHANGED << idx, ion_states_h_ >>
           ELSE /\ ion_states_h_' = [ion_states_h_ EXCEPT ![idx + 1] = IonStateOf(oion)]
                /\ idx' = idx + 1
                /\ pc' = LoopOrNext("ions", idx + 1, n_ions, "sites")
                /\ error' = error
    /\ UNCHANGED << inputs, base_ptr, dims, state_vars_h_, parameters_h_,
                    globals_h_, data_, indices_, ppack_, dtables, hist >>

\* if (width_==0) return;
InstNoSites ==
    /\ pc = "sites"
    /\ width_ = 0
    /\ pc' = "done"
    /\ UNCHANGED << inputs, idx, base_ptr, error, dims, tables, data_, indices_,
                    ppack_, dtables, hist >>

-----------------------------------------------------------------------------
(* instantiate(): the value buffer *)

\* ptr += n of append_chunk / append_const, n being width_
Advance(ptr, n) == [ptr EXCEPT !.off = @ + n]

\* the size without the weight chunk
DataCount_NoWeight == (n_state_vars + n_parameters) * width_padded_ + n_globals

DataCount == (n_state_vars + n_parameters + 1) * width_padded_ + n_globals

InstAllocData ==
    /\ pc = "sites"
    /\ width_ # 0
    /\ data_' = Fill(DataCount, NAN)
    /\ base_ptr' = Ptr("data", 0)
    /\ pc' = "weight"
    /\ UNCHANGED << inputs, idx, error, dims, tables, indices_, ppack_, dtables, hist >>

InstAppendWeight ==
    /\ pc = "weight"
    /\ data_' = Write(data_, base_ptr.off, pos_data.weight)
    /\ ppack_' = [ppack_ EXCEPT !.weight = base_ptr]
    /\ base_ptr' = Advance(base_ptr, width_)
    /\ pc' = LoopOrNext("params", 0, n_parameters,
                        LoopOrNext("state_vars", 0, n_state_vars, "globals"))
    /\ idx' = 0
    /\ UNCHANGED << inputs, error, dims, tables, indices_, dtables, hist >>

InstAppendParameter ==
    /\ pc = "params"
    /\ data_' = Write(data_, base_ptr.off,
                      Fill(width_, mech_.parameters[idx + 1].default_value))
    /\ parameters_h_' = [parameters_h_ EXCEPT ![idx + 1] = base_ptr]
    /\ base_ptr' = Advance(base_ptr, width_)
    /\ pc' = LoopOrNext("params", idx + 1, n_parameters,
                        LoopOrNext("state_vars", 0, n_state_vars, "globals"))
    /\ idx' = IF idx + 1 < n_parameters THEN idx + 1 ELSE 0
    /\ UNCHANGED << inputs, error, dims, state_vars_h_, ion_states_h_, globals_h_,
                    indices_, ppack_, dtables, hist >>

InstAppendStateVar ==
    /\ pc = "state_vars"
    /\ data_' = Write(data_, base_ptr.off,
                      Fill(width_, mech_.state_vars[idx + 1].default_value))
    /\ state_vars_h_' = [state_vars_h_ EXCEPT ![idx + 1] = base_ptr]
    /\ base_ptr' = Advance(base_ptr, width_)
    /\ pc' = LoopOrNext("state_vars", idx + 1, n_state_vars, "globals")
    /\ idx' = IF idx + 1 < n_state_vars THEN idx + 1 ELSE 0
    /\ UNCHANGED << inputs, error, dims, parameters_h_, ion_states_h_, globals_h_,
                    indices_, ppack_, dtables, hist >>

\* the inner loop over the schema's globals for the override (k, v), from gi on
RECURSIVE ScanGlobals(_, _, _, _, _)
ScanGlobals(g, k, v, gi, found) ==
    IF gi > n_globals THEN [thrown |-> FALSE, g |-> g]
    ELSE IF mech_.globals[gi].name = k
         THEN [thrown |-> FALSE, g |-> [g EXCEPT ![gi] = v]]
         ELSE IF ~found THEN [thrown |-> TRUE, g |-> g]
              ELSE ScanGlobals(g, k, v, gi + 1, found)

\* the loop over overrides.globals, from its oi-th entry on
RECURSIVE ApplyOverrides(_, _, _)
ApplyOverrides(g, ovs, oi) ==
    IF oi > Len(ovs) THEN [thrown |-> FALSE, g |-> g]
    ELSE LET r == ScanGlobals(g, ovs[oi][1], ovs[oi][2], 1, FALSE)
         IN  IF r.thrown THEN r ELSE ApplyOverrides(r.g, ovs, oi + 1)

GlobalDefaults == [i \in 1..n_globals |-> mech_.globals[i].default_value]

InstGlobals ==
    /\ pc = "globals"
    /\ LET r == ApplyOverrides(GlobalDefaults, overrides.globals, 1)
       IN  /\ globals_h_' = r.g
           /\ IF r.thrown
              THEN /\ Abort("no_such_global")
                   /\ UNCHANGED << data_, ppack_, base_ptr >>
              ELSE /\ data_' = Write(data_, base_ptr.off, r.g)
                   /\ ppack_' = [ppack_ EXCEPT !.globals = base_ptr]
                   /\ base_ptr' = Advance(base_ptr, n_globals)
                   /\ pc' = "alloc_indices"
                   /\ error' = error
    /\ UNCHANGED << inputs, idx, dims, state_vars_h_, parameters_h_, ion_states_h_,
                    indices_, dtables, hist >>

-----------------------------------------------------------------------------
(* instantiate(): the index buffer and the device tables *)

IndexCount == (IF mult_in_place_ THEN 1 ELSE 0) + n_ions + 1

\* util::index_into(needles, haystack): where each needle is in the haystack
IndexInto(needles, haystack) ==
    [k \in 1..Len(needles) |->
        (CHOOSE j \in 1..Len(haystack) : haystack[j] = needles[k]) - 1]

AfterIonsPc == IF mult_in_place_ THEN "multiplicity" ELSE "upload"

InstAllocIndices ==
    /\ pc = "alloc_indices"
    /\ indices_' = Fill(IndexCount * width_padded_, Unwritten)
    /\ base_ptr' = Ptr("indices", 0)
    /\ pc' = "node_index"
    /\ UNCHANGED << inputs, idx, error, dims, tables, data_, ppack_, dtables, hist >>

InstAppendNodeIndex ==
    /\ pc = "node_index"
    /\ indices_' = Write(indices_, base_ptr.off, pos_data.cv)
    /\ ppack_' = [ppack_ EXCEPT !.node_index = base_ptr]
    /\ base_ptr' = Advance(base_ptr, width_)
    /\ pc' = LoopOrNext("ion_index", 0, n_ions, AfterIonsPc)
    /\ idx' = 0
    /\ UNCHANGED << inputs, error, dims, tables, data_, dtables, hist >>

InstAppendIonIndex ==
    /\ pc = "ion_index"
    /\ LET ion == mech_.ions[idx + 1].name
           oion == PtrByKey(IonBinding(ion))
       IN  IF MissingAtIndex(oion)
           THEN /\ Abort("missing_ion")
                /\ UNCHANGED << idx, ion_states_h_, indices_, base_ptr >>
           ELSE /\ indices_' = Write(indices_, base_ptr.off,
                                     IndexInto(pos_data.cv, IonNodeIndex))
                /\ ion_states_h_' = [ion_states_h_ EXCEPT ![idx + 1].index = base_ptr]
                /\ base_ptr' = Advance(base_ptr, width_)
                /\ pc' = LoopOrNext("ion_index", idx + 1, n_ions, AfterIonsPc)
                /\ idx' = IF idx + 1 < n_ions THEN idx + 1 ELSE 0
                /\ error' = error
    /\ UNCHANGED << inputs, dims, state_vars_h_, parameters_h_, globals_h_,
                    data_, ppack_, dtables, hist >>

InstAppendMultiplicity ==
    /\ pc = "multiplicity"
    /\ indices_' = Write(indices_, base_ptr.off, pos_data.multiplicity)
    /\ ppack_' = [ppack_ EXCEPT !.multiplicity = base_ptr]
    /\ base_ptr' = Advance(base_ptr, width_)
    /\ pc' = "upload"
    /\ UNCHANGED << inputs, idx, error, dims, tables, data_, dtables, hist >>

InstUpload ==
    /\ pc = "upload"
    /\ parameters_d_' = parameters_h_
    /\ state_vars_d_' = state_vars_h_
    /\ ion_states_d_' = ion_states_h_
    /\ ppack_' = [ppack_ EXCEPT !.parameters = DevTablePtr("parameters_d_"),
                                !.state_vars = DevTablePtr("state_vars_d_"),
                                !.ion_states = DevTablePtr("ion_states_d_")]
    /\ pc' = "done"
    /\ UNCHANGED << inputs, idx, base_ptr, error, dims, tables, data_, indices_, hist >>

NextInstantiate ==
    \/ InstSetInternal
    \/ InstSetIonView
    \/ InstNoSites
    \/ InstAllocData
    \/ InstAppendWeight
    \/ InstAppendParameter
    \/ InstAppendStateVar
    \/ InstGlobals
    \/ InstAllocIndices
    \/ InstAppendNodeIndex
    \/ InstAppendIonIndex
    \/ InstAppendMultiplicity
    \/ InstUpload

SpecInstantiate == InitInstantiate /\ [][NextInstantiate]_vars

-----------------------------------------------------------------------------
(* Accessors *)

\* field_data(var): parameters first, then state variables; null when absent
FieldData(var) ==
    IF \E i \in 1..n_parameters : mech_.parameters[i].name = var
    THEN parameters_h_[CHOOSE i \in 1..n_parameters :
                          /\ mech_.parameters[i].name = var
                          /\ \A j \in 1..(i - 1) : mech_.parameters[j].name # var]
    ELSE IF \E i \in 1..n_state_vars : mech_.state_vars[i].name = var
         THEN state_vars_h_[CHOOSE i \in 1..n_state_vars :
                               /\ mech_.state_vars[i].name = var
                               /\ \A j \in 1..(i - 1) : mech_.state_vars[j].name # var]
         ELSE NullPtr

FieldTable ==
    [i \in 1..n_parameters |->
        << mech_.parameters[i].name,
           << parameters_h_[i], mech_.parameters[i].default_value >> >>]
    \o [i \in 1..n_state_vars |->
        << mech_.state_vars[i].name,
           << state_vars_h_[i], mech_.state_vars[i].default_value >> >>]

GlobalTable ==
    [i \in 1..n_globals |-> << mech_.globals[i].name, globals_h_[i] >>]

StateTable ==
    [i \in 1..n_state_vars |->
        << mech_.state_vars[i].name,
           << state_vars_h_[i], mech_.state_vars[i].default_value >> >>]

\* the ion_state_view ion_table() fills from ion_states_h_[i]
IonView(st) ==
    [ current_density        |-> st.current_density,
      external_concentration |-> st.internal_concentration,
      internal_concentration |-> st.external_concentration,
      ionic_charge           |-> st.ionic_charge ]

IonTable ==
    [i \in 1..n_ions |->
        << mech_.ions[i].name,
           << IonView(ion_states_h_[i]), ion_states_h_[i].index >> >>]

-----------------------------------------------------------------------------
(* set_parameter() *)

FieldNames ==
    { mech_.parameters[i].name : i \in 1..n_parameters }
        \cup { mech_.state_vars[i].name : i \in 1..n_state_vars }

\* the value sequences of length n the mutator is called with
ValueSeqs(n) == { [i \in 1..n |-> c + i] : c \in {60, 70} }

SetParameterCall(key, values) ==
    /\ pc = "done"
    /\ nops < MaxOps
    /\ nops' = nops + 1
    /\ IF Len(values) # width_
       THEN /\ last' = [op |-> "set_parameter", key |-> key, values |-> values,
                        status |-> "size_mismatch"]
            /\ data_' = data_
       ELSE LET field_ptr == FieldData(key)
            IN  IF field_ptr = NullPtr
                THEN /\ last' = [op |-> "set_parameter", key |-> key,
                                 values |-> values, status |-> "no_such_parameter"]
                     /\ data_' = data_
                ELSE /\ last' = [op |-> "set_parameter", key |-> key,
                                 values |-> values, status |-> "ok"]
                     /\ data_' = IF width_ = 0 THEN data_
                                 ELSE Write(data_, field_ptr.off, values)
    /\ UNCHANGED << inputs, pc, idx, base_ptr, error, dims, tables, indices_,
                    ppack_, dtables, kernel_out, trace >>

SetParameter ==
    \E key \in FieldNames \cup {"nosuch"}, n \in {width_, width_ + 1} :
        \E values \in ValueSeqs(n) : SetParameterCall(key, values)

-----------------------------------------------------------------------------
(* initialize() *)

\* NAN * m is NAN
Mul(x, m) == IF x = NAN THEN NAN ELSE x * m

\* multiply_in_place(s, p, n): s[i] *= p[i] for the n sites
MultiplyInPlace(d, s, p, n) ==
    [j \in 1..Len(d) |->
        IF j > s.off /\ j <= s.off + n
        THEN Mul(d[j], indices_[p.off + (j - s.off)])
        ELSE d[j]]

\* the loop run over the parameter table instead of the state variables
RECURSIVE ScaleStateVars_Parameters(_, _)
ScaleStateVars_Parameters(d, k) ==
    IF k > n_parameters THEN d
    ELSE ScaleStateVars_Parameters(
             MultiplyInPlace(d, parameters_h_[k], ppack_.multiplicity, ppack_.width),
             k + 1)

\* the loop over the state variables, from the k-th on
RECURSIVE ScaleStateVars(_, _)
ScaleStateVars(d, k) ==
    IF k > n_state_vars THEN d
    ELSE ScaleStateVars(
             MultiplyInPlace(d, state_vars_h_[k], ppack_.multiplicity, ppack_.width),
             k + 1)

\* what the initialization kernel may leave in a state variable
KernelSeeds == {1, 2}

\* iface_.init_mechanism(&ppack_): the generated kernel sets every state
\* variable on the ppack_.width sites, through the device table
RECURSIVE InitMechanism(_, _, _)
InitMechanism(d, x, k) ==
    IF k > Len(state_vars_d_) THEN d
    ELSE InitMechanism(
             Write(d, state_vars_d_[k].off, [i \in 1..ppack_.width |-> x + k + i]),
             x, k + 1)

\* set_time_ptr(): ppack_.vec_t = vec_t_ptr_->data()
InitSetTimePtr ==
    /\ pc = "done"
    /\ nops < MaxOps
    /\ ppack_' = [ppack_ EXCEPT !.vec_t = SharedPtr("time")]
    /\ trace' = << "set_time_ptr" >>
    /\ last' = [op |-> "initialize", key |-> "", values |-> <<>>,
                status |-> "running"]
    /\ pc' = "init_mechanism"
    /\ UNCHANGED << inputs, idx, base_ptr, error, dims, tables, data_, indices_,
                    dtables, nops, kernel_out >>

InitKernel ==
    /\ pc = "init_mechanism"
    /\ \E x \in KernelSeeds : data_' = InitMechanism(data_, x, 1)
    /\ kernel_out' = data_'
    /\ trace' = Append(trace, "init_mechanism")
    /\ pc' = "init_scale"
    /\ UNCHANGED << inputs, idx, base_ptr, error, dims, tables, indices_, ppack_,
                    dtables, nops, last >>

InitScale ==
    /\ pc = "init_scale"
    /\ IF ~mult_in_place_
       THEN UNCHANGED << data_, trace >>
       ELSE /\ data_' = ScaleStateVars(data_, 1)
            /\ trace' = Append(trace, "multiply_in_place")
    /\ last' = [last EXCEPT !.status = "ok"]
    /\ nops' = nops + 1
    /\ pc' = "done"
    /\ UNCHANGED << inputs, idx, base_ptr, error, dims, tables, indices_, ppack_,
                    dtables, kernel_out >>

Next ==
    \/ NextInstantiate
    \/ SetParameter
    \/ InitSetTimePtr
    \/ InitKernel
    \/ InitScale

Spec == Init /\ [][Next]_vars

-----------------------------------------------------------------------------
(* Properties *)

Returned == pc = "done"

Ended == pc \in {"done", "aborted"}

GlobalNames == { mech_.globals[i].name : i \in 1..n_globals }

OverrideNames == { overrides.globals[i][1] : i \in 1..Len(overrides.globals) }

\* the shared-state ion a declared ion resolves to: the rebind target if the
\* rebind map has the declared name, else the declared name
ResolvedIon(i) == IonBinding(mech_.ions[i].name)

IonsProvisioned == \A i \in 1..n_ions : ResolvedIon(i) \in shared.ion_data

OverrideOrDefault(i) ==
    IF mech_.globals[i].name \in OverrideNames
    THEN (CHOOSE o \in { overrides.globals[j] : j \in 1..Len(overrides.globals) } :
              o[1] = mech_.globals[i].name)[2]
    ELSE mech_.globals[i].default_value

\* C1: when every override names a schema global (and every ion is provisioned),
\* instantiate succeeds and global_table() lists the schema's globals in order,
\* each with its override value if overridden and its default otherwise.
\* Stated for the placements with at least one site.
C1_GlobalOverridesApplied ==
    (Ended /\ width_ > 0 /\ OverrideNames \subseteq GlobalNames /\ IonsProvisioned)
        => /\ Returned
           /\ GlobalTable = [i \in 1..n_globals |->
                                << mech_.globals[i].name, OverrideOrDefault(i) >>]

\* C2: an override naming no schema global makes instantiate abort with a
\* fatal error, whatever the schema and the placement.
C2_UnknownOverrideAborts ==
    (Ended /\ ~(OverrideNames \subseteq GlobalNames))
        => (pc = "aborted" /\ error # NoError)

\* C3: after a successful instantiate, ion_table() has one entry per declared
\* ion, keyed by the declared name, whose view exposes the resolved ion's
\* current-density, internal-concentration, external-concentration and charge
\* pointers under the fields of those names.
C3_IonTableExposesResolvedIon ==
    Returned =>
        /\ Len(IonTable) = n_ions
        /\ \A i \in 1..n_ions :
              /\ IonTable[i][1] = mech_.ions[i].name
              /\ IonTable[i][2][1].current_density = IonPtr(ResolvedIon(i), "iX_")
              /\ IonTable[i][2][1].internal_concentration = IonPtr(ResolvedIon(i), "Xi_")
              /\ IonTable[i][2][1].external_concentration = IonPtr(ResolvedIon(i), "Xo_")
              /\ IonTable[i][2][1].ionic_charge = IonPtr(ResolvedIon(i), "charge")

\* C4: an instance of width 0 has every pointer table populated: parameter and
\* state-variable entries, ion-state records with their index pointers, and the
\* parameter pack's weight, node-index, globals and device-table pointers all
\* hold a recorded sub-pointer.
C4_ZeroWidthTablesPopulated ==
    (Returned /\ width_ = 0) =>
        /\ \A i \in 1..n_parameters : parameters_h_[i].buf = "data"
        /\ \A i \in 1..n_state_vars : state_vars_h_[i].buf = "data"
        /\ \A i \in 1..n_ions :
              /\ ion_states_h_[i].current_density.buf = "shared"
              /\ ion_states_h_[i].index.buf = "indices"
        /\ ppack_.weight.buf = "data"
        /\ ppack_.node_index.buf = "indices"
        /\ ppack_.globals.buf = "data"
        /\ ppack_.parameters.buf = "device"
        /\ ppack_.state_vars.buf = "device"
        /\ ppack_.ion_states.buf = "device"

\* C5: in the value buffer the k-th per-site chunk (weight, parameters, state
\* variables) starts at k * width_padded and the globals region starts at
\* (1 + n_parameters + n_state_vars) * width_padded, for every width.
C5_ChunksAtPaddedStride ==
    (Returned /\ width_ > 0) =>
        /\ ppack_.weight = Ptr("data", 0)
        /\ \A i \in 1..n_parameters :
              parameters_h_[i] = Ptr("data", i * width_padded_)
        /\ \A i \in 1..n_state_vars :
              state_vars_h_[i] = Ptr("data", (n_parameters + i) * width_padded_)
        /\ ppack_.globals =
              Ptr("data", (1 + n_parameters + n_state_vars) * width_padded_)

\* C6: when a declared ion's resolved name is not in the shared state's ion
\* map, instantiate aborts with the missing-ion error, and at the abort neither
\* the value buffer nor the index buffer has been allocated or written.
C6_MissingIonAbortsBeforeAllocation ==
    /\ (~IonsProvisioned /\ pc \notin {"start", "ions"})
          => (pc = "aborted" /\ error = "missing_ion")
    /\ error = "missing_ion" => (data_ = <<>> /\ indices_ = <<>>)

C6_Witness ==
    /\ pc = "aborted"
    /\ error = "missing_ion"
    /\ width_ > 0
    /\ \E i \in 1..n_ions : /\ ResolvedIon(i) # mech_.ions[i].name
                            /\ ResolvedIon(i) \notin shared.ion_data

\* C7: on an instantiated instance, set_field(name, v) with name in
\* field_table() and len(v) = width succeeds, and the width elements read
\* through field_lookup(name) are then v.
C7_SetFieldRoundTrip ==
    (Returned /\ last.op = "set_parameter" /\ last.key \in FieldNames
              /\ Len(last.values) = width_)
        => /\ last.status = "ok"
           /\ Read(data_, FieldData(last.key).off, width_) = last.values

\* C8: set_field raises exactly when len(values) # width or the name is no
\* parameter and no state variable, and a call that raises leaves the value
\* buffer as it was.
C8_SetFieldRaisesExactly ==
    [][ (nops' = nops + 1 /\ last'.op = "set_parameter")
          => /\ (last'.status # "ok")
                    <=> (Len(last'.values) # width_ \/ last'.key \notin FieldNames)
             /\ (last'.status # "ok") => data_' = data_ ]_vars

\* C9: on an instance placed with multiplicities, initialize() refreshes the
\* clock pointer, runs the kernel and then scales: every state variable holds at
\* site i the kernel's value times multiplicity[i], and the scaling leaves the
\* weight chunk, the parameter chunks, the globals and every recorded pointer
\* unchanged.
C9_InitializeScalesStateVars ==
    [][ (pc = "init_scale" /\ mult_in_place_ /\ pc' = "done")
          => /\ trace = << "set_time_ptr", "init_mechanism" >>
             /\ trace' = << "set_time_ptr", "init_mechanism", "multiply_in_place" >>
             /\ ppack_.vec_t = SharedPtr("time")
             /\ \A k \in 1..n_state_vars : \A i \in 1..width_ :
                   data_'[state_vars_h_[k].off + i]
                      = Mul(kernel_out[state_vars_h_[k].off + i],
                            pos_data.multiplicity[i])
             /\ Read(data_', ppack_.weight.off, width_) = pos_data.weight
             /\ \A k \in 1..n_parameters :
                   Read(data_', parameters_h_[k].off, width_)
                      = Read(kernel_out, parameters_h_[k].off, width_)
             /\ Read(data_', ppack_.globals.off, n_globals) = globals_h_
             /\ Len(data_') = Len(data_)
             /\ UNCHANGED << tables, dtables, ppack_, indices_, dims >> ]_vars

C9_Witness ==
    /\ pc = "done"
    /\ last = [op |-> "initialize", key |-> "", values |-> <<>>, status |-> "ok"]
    /\ mult_in_place_
    /\ nops >= 2
    /\ n_state_vars >= 2
    /\ \E i \in 1..width_ :
          /\ pos_data.multiplicity[i] > 1
          /\ data_[state_vars_h_[2].off + i]
                = 2 * kernel_out[state_vars_h_[2].off + i]

\* the chunks recorded so far in a buffer, in layout order
RecordedIn(chunks, buf) ==
    LET Is(c) == c.p.buf = buf IN SelectSeq(chunks, Is)

ValueChunks ==
    RecordedIn(
        << [p |-> ppack_.weight, len |-> width_] >>
           \o [i \in 1..Len(parameters_h_) |-> [p |-> parameters_h_[i], len |-> width_]]
           \o [i \in 1..Len(state_vars_h_) |-> [p |-> state_vars_h_[i], len |-> width_]]
           \o << [p |-> ppack_.globals, len |-> n_globals] >>,
        "data")

IndexChunks ==
    RecordedIn(
        << [p |-> ppack_.node_index, len |-> width_] >>
           \o [i \in 1..Len(ion_states_h_) |-> [p |-> ion_states_h_[i].index, len |-> width_]]
           \o << [p |-> ppack_.multiplicity, len |-> width_] >>,
        "indices")

\* offsets strictly increasing, element ranges pairwise disjoint and inside
\* a buffer of the given size
WellLaidOut(chunks, size) ==
    /\ \A i \in 1..Len(chunks) : \A j \in (i + 1)..Len(chunks) :
          /\ chunks[i].p.off < chunks[j].p.off
          /\ chunks[i].p.off + chunks[i].len <= chunks[j].p.off
    /\ \A i \in 1..Len(chunks) : chunks[i].p.off + chunks[i].len <= size

\* C10: at every step of instantiate with width > 0, in both buffers the
\* recorded chunks start at strictly increasing offsets, their element ranges
\* are pairwise disjoint, and the cursor never exceeds the allocated size:
\* (n_state_vars + n_parameters + 1) * width_padded + n_globals values and
\* (1 + n_ions + [multiplicity present]) * width_padded indices.
C10_ChunksDisjointWithinAllocation ==
    width_ > 0 =>
        /\ data_ # <<>> =>
              Len(data_) = (n_state_vars + n_parameters + 1) * width_padded_ + n_globals
        /\ indices_ # <<>> =>
              Len(indices_) = (1 + n_ions + (IF mult_in_place_ THEN 1 ELSE 0)) * width_padded_
        /\ WellLaidOut(ValueChunks, Len(data_))
        /\ WellLaidOut(IndexChunks, Len(indices_))
        /\ base_ptr.buf = "data" => base_ptr.off <= Len(data_)
        /\ base_ptr.buf = "indices" => base_ptr.off <= Len(indices_)

C10_Witness ==
    /\ pc = "done"
    /\ width_ > 0
    /\ width_ < width_padded_
    /\ mult_in_place_
    /\ Len(ValueChunks) = 6
    /\ Len(IndexChunks) = 4
    /\ base_ptr = Ptr("indices", 4 * width_)

=============================================================================
